---- MODULE Spec2Model ----
(***************************************************************************)
(* Model of src/pdf_compressor_quality.py: QualityPreservingCompressor.    *)
(*                                                                         *)
(* The document is a set of image object handles (pikepdf stream objects)  *)
(* referenced from the pages' /Resources//XObject dictionaries.  A byte    *)
(* string is modelled by what the program can observe of it: its kind, its *)
(* length and what it decodes to.  Pillow and pikepdf are external: their  *)
(* calls are modelled by their documented behaviour, and the calls that    *)
(* may raise inside a try are chosen to raise or not at their action.      *)
(* Floating point expressions are evaluated in exact integer arithmetic.   *)
(***************************************************************************)
EXTENDS Integers, Sequences, FiniteSets, TLC

VARIABLES
    obj,               \* the open document: handle -> image object
    pages,             \* page -> the handles of list(xobjects.items()), in order
    pc,                \* position in compress_pdf_quality / process_pdf_images
    page_num,          \* enumerate(pdf.pages) index, 1-based
    idx,               \* index into list(xobjects.items()), 1-based
    img,               \* local img of process_pdf_images
    compressed_data,   \* local compressed_data of process_pdf_images
    images_processed,  \* local counter of process_pdf_images
    saves,             \* number of pdf.save calls that wrote the document
    result,            \* the tuple returned by compress_pdf_quality
    runs,              \* number of process_pdf_images calls on this document
    visited,           \* history: <<page_num, idx>> of the handles visited this run
    failures,          \* history: per-handle failures caught this run
    before,            \* history: the current handle as it was when its visit began
    commits,           \* history: handle -> number of commits completed on it
    page_errors        \* history: the pages whose resource lookup raised this run

vars == <<obj, pages, pc, page_num, idx, img, compressed_data, images_processed,
          saves, result, runs, visited, failures, before, commits, page_errors>>

(***************************************************************************)
(* Bounds of the model                                                     *)
(***************************************************************************)
\* process_pdf_images may be called this many times on the open document
MaxRuns == 2
\* encoded lengths are drawn this close around 90% of the original length
EncSpread == 1
\* thumbnail inputs reach this far above the 1500 px cap (SpecResize)
MaxOver == 6

(***************************************************************************)
(* Program constants                                                       *)
(***************************************************************************)
\* img.thumbnail((1500, 1500), ...) and the guard before it
MaxDim == 1500
\* if compression_ratio > 10
MinSavingsPercent == 10
\* obj['/BitsPerComponent'] = 8
TargetBits == 8

Max(a, b) == IF a >= b THEN a ELSE b
Abs(a) == IF a >= 0 THEN a ELSE 0 - a

(***************************************************************************)
(* Data                                                                    *)
(***************************************************************************)
\* A byte string.  kind "raw": decoded samples, mode is what the document
\* model's built-in materialization makes of them ("none": it raises).
\* kind "jpeg": the output of the codec for an image of that mode and size.
RawBytes(n, decodes) ==
    [kind |-> "raw", len |-> n, mode |-> decodes, width |-> 0, height |-> 0]
JpegBytes(n, m, w, h) ==
    [kind |-> "jpeg", len |-> n, mode |-> m, width |-> w, height |-> h]
NoBytes == [kind |-> "none", len |-> 0, mode |-> "none", width |-> 0, height |-> 0]

\* A PIL image: mode, size, the length of the pixel buffer it was built from
\* and the extraction strategy that produced it.
Image(m, w, h, n, s) == [mode |-> m, width |-> w, height |-> h, buf |-> n, via |-> s]
None == [mode |-> "none", width |-> 0, height |-> 0, buf |-> 0, via |-> 0]

Handle(st, f, w, h, b, cs, d) ==
    [subtype |-> st, filter |-> f, width |-> w, height |-> h, bpc |-> b,
     colorspace |-> cs, data |-> d]

NoHandle == Handle("none", "none", 0, 0, 0, "none", NoBytes)

\* The image objects a document may hold.  What as_pil_image makes of a
\* stream is not constrained by the stream's length: one object has an
\* empty stream for which it returns an image.
HandleConfigs ==
    { Handle("/Image", "/FlateDecode", 1200, 800, 8, "/DeviceRGB",
             RawBytes(1200 * 800 * 3, "RGB")),
      Handle("/Image", "/FlateDecode", 2000, 2000, 8, "/DeviceGray",
             RawBytes(2000 * 2000, "L")),
      Handle("/Image", "/FlateDecode", 3000, 1000, 8, "/DeviceRGB",
             RawBytes(3000 * 1000 * 3, "none")),
      Handle("/Image", "/FlateDecode", 4, 2, 8, "/DeviceCMYK", RawBytes(32, "none")),
      Handle("/Image", "/FlateDecode", 4, 2, 8, "/DeviceCMYK", RawBytes(24, "none")),
      Handle("/Image", "/FlateDecode", 4, 2, 8, "/DeviceRGB", RawBytes(23, "none")),
      Handle("/Image", "/FlateDecode", 5, 2, 8, "/DeviceGray", RawBytes(13, "none")),
      Handle("/Image", "/FlateDecode", 5, 4, 4, "/Indexed", RawBytes(10, "P")),
      Handle("/Image", "/FlateDecode", 2, 2, 8, "/DeviceRGB", RawBytes(16, "RGBA")),
      Handle("/Image", "/FlateDecode", 0, 5, 8, "/ICCBased", RawBytes(0, "none")),
      Handle("/Image", "/FlateDecode", 0 - 4, 0 - 2, 8, "/DeviceRGB",
             RawBytes(24, "none")),
      Handle("/Image", "/FlateDecode", 2, 2, 8, "/DeviceGray", RawBytes(0, "L")),
      Handle("/Image", "/DCTDecode", 100, 100, 8, "/DeviceRGB",
             JpegBytes(5000, "RGB", 100, 100)),
      Handle("/Image", "none", 4, 2, 8, "/DeviceRGB", RawBytes(24, "RGB")),
      Handle("/Form", "/FlateDecode", 0, 0, 0, "none", RawBytes(40, "none")) }

Handles == {1, 2}

\* Page layouts: a page without /Resources is the empty sequence; a handle
\* may be referenced from several pages.
Layouts ==
    { << <<1, 2>> >>,
      << <<1>>, << >>, <<2, 1>> >> }

(***************************************************************************)
(* Image Extractor: smart_image_extraction                                 *)
(***************************************************************************)
\* Pillow's bytes per pixel of a mode.
PilChannels(m) ==
    CASE m = "L" -> 1
      [] m = "P" -> 1
      [] m = "RGB" -> 3
      [] m = "RGBA" -> 4
      [] m = "CMYK" -> 4
      [] OTHER -> 0

\* "Determine mode based on colorspace": the mode and the channel count.
ModeOfColorspace(cs) ==
    CASE cs = "/DeviceRGB" -> "RGB"
      [] cs = "/DeviceGray" -> "L"
      [] cs = "/DeviceCMYK" -> "CMYK"
      [] OTHER -> "RGB"

ChannelsOfColorspace(cs) ==
    CASE cs = "/DeviceRGB" -> 3
      [] cs = "/DeviceGray" -> 1
      [] cs = "/DeviceCMYK" -> 4
      [] OTHER -> 3

\* image_data[:k] of a byte string of length n: its length.
SliceForgotten(n, k) == n
SliceLen(n, k) == IF k < n THEN k ELSE n

\* Image.frombytes(mode, (w, h), data) with data of n bytes, reached by
\* strategy s: Pillow raises on a negative size and when the data does not
\* fill the image.
frombytes(m, w, h, n, s) ==
    IF w < 0 \/ h < 0 THEN None
    ELSE IF n >= w * h * PilChannels(m) THEN Image(m, w, h, n, s) ELSE None

\* image_obj.as_pil_image(): the document model's own materialization.
as_pil_image(o) ==
    IF o.data.kind = "raw" /\ o.data.mode # "none"
    THEN Image(o.data.mode, o.width, o.height,
               o.width * o.height * PilChannels(o.data.mode), 1)
    ELSE IF o.data.kind = "jpeg"
    THEN Image(o.data.mode, o.data.width, o.data.height,
               o.data.width * o.data.height * PilChannels(o.data.mode), 1)
    ELSE None

\* Method 2: manual extraction by the declared colorspace.
ManualExtraction(o) ==
    LET expected_size == o.width * o.height * ChannelsOfColorspace(o.colorspace)
    IN  IF o.data.len >= expected_size
        THEN frombytes(ModeOfColorspace(o.colorspace), o.width, o.height,
                       SliceLen(o.data.len, expected_size), 2)
        ELSE None

\* Method 3: "Try RGB as fallback".
RGBFallback(o) ==
    IF o.data.len >= o.width * o.height * 3
    THEN frombytes("RGB", o.width, o.height,
                   SliceLen(o.data.len, o.width * o.height * 3), 3)
    ELSE None

smart_image_extraction(o) ==
    IF as_pil_image(o) # None THEN as_pil_image(o)
    ELSE IF ManualExtraction(o) # None THEN ManualExtraction(o)
    ELSE IF RGBFallback(o) # None THEN RGBFallback(o)
    ELSE None

\* The calls smart_image_extraction makes on o, in order: the strategy and,
\* for Image.frombytes, its arguments.
Call(s, m, w, h, n) == [strategy |-> s, mode |-> m, width |-> w, height |-> h, n |-> n]

ManualCalls(o) ==
    LET expected_size == o.width * o.height * ChannelsOfColorspace(o.colorspace)
    IN  IF o.data.len >= expected_size
        THEN << Call(2, ModeOfColorspace(o.colorspace), o.width, o.height,
                     SliceLen(o.data.len, expected_size)) >>
        ELSE << >>

FallbackCalls(o) ==
    IF o.data.len >= o.width * o.height * 3
    THEN << Call(3, "RGB", o.width, o.height,
                 SliceLen(o.data.len, o.width * o.height * 3)) >>
    ELSE << >>

StrategyCalls(o) ==
    << Call(1, "as_pil_image", o.width, o.height, o.data.len) >>
      \o (IF as_pil_image(o) # None THEN << >>
          ELSE ManualCalls(o)
                 \o (IF ManualExtraction(o) # None THEN << >> ELSE FallbackCalls(o)))

(***************************************************************************)
(* Recompression Policy: compress_image_smart                              *)
(***************************************************************************)
\* "Resize only if extremely large"
NeedsResizeBoth(w, h) == w > MaxDim /\ h > MaxDim
NeedsResize(w, h) == w > MaxDim \/ h > MaxDim

\* Pillow's round_aspect(number, key) for number = num / den: the one of
\* floor(number), ceil(number) with the smaller key (floor on a tie), at least 1.
\* keyF and keyC are the keys of floor and ceil scaled by a common factor.
Floor(num, den) == num \div den
Ceil(num, den) == (num + den - 1) \div den
RoundAspect(f, c, keyF, keyC) == Max(IF keyF <= keyC THEN f ELSE c, 1)

\* Pillow's Image.thumbnail((x, y)) on an image of size (w, h): the new size.
\* aspect = w / h; if x / y >= aspect the width is fitted, else the height.
ThumbnailSize(w, h, x, y) ==
    IF x >= w /\ y >= h THEN <<w, h>>
    ELSE IF x * h >= y * w
    THEN LET f == Floor(y * w, h)
             c == Ceil(y * w, h)
         IN  <<RoundAspect(f, c, Abs(w * y - f * h), Abs(w * y - c * h)), y>>
    ELSE LET f == Floor(x * h, w)
             c == Ceil(x * h, w)
             keyF == IF f = 0 THEN 0 ELSE Abs(w * f - x * h) * c
             keyC == Abs(w * c - x * h) * f
         IN  <<x, RoundAspect(f, c, keyF, keyC)>>

\* The size of img after the size cap (thumbnail resizes img in place).
CappedSize(w, h) ==
    IF NeedsResize(w, h) THEN ThumbnailSize(w, h, MaxDim, MaxDim) ELSE <<w, h>>

\* The mode of the image that is handed to the JPEG encoder.
EncodedMode(original_mode) == IF original_mode = "L" THEN "L" ELSE "RGB"

\* img after compress_image_smart returned: the caller's object keeps its
\* mode (convert and paste build new images) and has the capped size.
ImageAfterCompressStale(i) == i
ImageAfterCompress(i) ==
    [i EXCEPT !.width = CappedSize(i.width, i.height)[1],
              !.height = CappedSize(i.width, i.height)[2]]

\* The bytes compress_image_smart returns when the codec writes n bytes.
compress_image_smart(i, n) ==
    JpegBytes(n, EncodedMode(i.mode),
              CappedSize(i.width, i.height)[1], CappedSize(i.width, i.height)[2])

\* The codec rejects an image without pixels.
EncoderRejects(i) == i.width = 0 \/ i.height = 0

\* The lengths the codec may produce for an original of n bytes: around the
\* 90% threshold, 40%, equal and larger.
EncodedLens(n) ==
    { k \in ((9 * n) \div 10 - EncSpread)..((9 * n) \div 10 + EncSpread) : k >= 1 }
        \cup {Max((2 * n) \div 5, 1), n, n + 1}

(***************************************************************************)
(* Gain Evaluator: compression_ratio > 10                                  *)
(***************************************************************************)
\* (1 - len(compressed_data) / len(original_data)) * 100 > 10, for o > 0
SignificantOrEqual(c, o) == (o - c) * 100 >= MinSavingsPercent * o
Significant(c, o) == (o - c) * 100 > MinSavingsPercent * o

(***************************************************************************)
(* State machine                                                           *)
(***************************************************************************)
NoResult == [returned |-> FALSE, success |-> FALSE, output_path |-> "None", error |-> "None"]
FailureWithPath(msg) ==
    [returned |-> TRUE, success |-> FALSE, output_path |-> "output_path", error |-> msg]
Failure(msg) ==
    [returned |-> TRUE, success |-> FALSE, output_path |-> "None", error |-> msg]
Success ==
    [returned |-> TRUE, success |-> TRUE, output_path |-> "output_path", error |-> "None"]

Init ==
    /\ obj \in [Handles -> HandleConfigs]
    /\ pages \in Layouts
    /\ pc = "start"
    /\ page_num = 1
    /\ idx = 1
    /\ img = None
    /\ compressed_data = NoBytes
    /\ images_processed = 0
    /\ saves = 0
    /\ result = NoResult
    /\ runs = 0
    /\ visited = << >>
    /\ failures = 0
    /\ before = NoHandle
    /\ commits = [h \in Handles |-> 0]
    /\ page_errors = {}

\* The handle the walker is at.
Current == pages[page_num][idx]

\* hasattr(obj, 'Subtype') and str(obj.Subtype) == '/Image' and
\* '/Filter' in obj and str(obj['/Filter']) == '/FlateDecode'
EligibleAnyFilter(o) == o.subtype = "/Image"
Eligible(o) == o.subtype = "/Image" /\ o.filter = "/FlateDecode"

\* Where the walk goes on after "except Exception ... continue" of a handle.
AfterErrorAbort == [page_num |-> Len(pages) + 1, idx |-> 1]
AfterError == [page_num |-> page_num, idx |-> idx + 1]

\* The loop moves to the next item.
NextItem ==
    /\ pc' = "walk"
    /\ idx' = idx + 1
    /\ page_num' = page_num

\* except Exception as e: print(...); continue
HandleError ==
    /\ pc' = "walk"
    /\ idx' = AfterError.idx
    /\ page_num' = AfterError.page_num
    /\ failures' = failures + 1

\* One step of a handle's visit that stays on the handle.
Step(next) ==
    /\ pc' = next
    /\ UNCHANGED <<page_num, idx>>

Frame == UNCHANGED <<pages, saves, result, runs, page_errors>>

(***************************************************************************)
(* compress_pdf_quality, before the walk                                   *)
(***************************************************************************)
ExistsCheck ==
    /\ pc = "start"
    /\ \E exists \in BOOLEAN :
         IF exists
         THEN pc' = "stat_input" /\ result' = result
         ELSE pc' = "done" /\ result' = Failure("Input file does not exist")
    /\ UNCHANGED <<obj, pages, page_num, idx, img, compressed_data, images_processed,
                   saves, runs, visited, failures, before, commits, page_errors>>

\* original_size = self.get_file_size_mb(input_path), outside the try
StatInput ==
    /\ pc = "stat_input"
    /\ \E ok \in BOOLEAN : pc' = IF ok THEN "open" ELSE "raised"
    /\ UNCHANGED <<obj, pages, page_num, idx, img, compressed_data, images_processed,
                   saves, result, runs, visited, failures, before, commits, page_errors>>

\* The start of process_pdf_images.
StartWalk ==
    /\ pc' = "walk"
    /\ page_num' = 1
    /\ idx' = 1
    /\ images_processed' = 0
    /\ runs' = runs + 1
    /\ visited' = << >>
    /\ failures' = 0
    /\ img' = None
    /\ compressed_data' = NoBytes
    /\ before' = NoHandle
    /\ page_errors' = {}

\* with pikepdf.open(input_path) as pdf: ... self.process_pdf_images(pdf)
OpenDocument ==
    /\ pc = "open"
    /\ \E ok \in BOOLEAN :
         IF ok
         THEN StartWalk /\ result' = result
         ELSE /\ pc' = "done"
              /\ result' = Failure("Error: open")
              /\ UNCHANGED <<page_num, idx, img, compressed_data, images_processed,
                             runs, visited, failures, before, page_errors>>
    /\ UNCHANGED <<obj, pages, saves, commits>>

(***************************************************************************)
(* process_pdf_images: the walk                                            *)
(***************************************************************************)
\* The page the walk goes on with after "continue" and after a page's items.
AfterPageBreak == IF pages[page_num] = << >> THEN Len(pages) + 1 ELSE page_num + 1
AfterPage == page_num + 1

\* '/Resources' not in page ...: continue, and the end of a page's items
NextPage ==
    /\ pc = "walk"
    /\ page_num <= Len(pages)
    /\ idx > Len(pages[page_num])
    /\ page_num' = AfterPage
    /\ idx' = 1
    /\ UNCHANGED <<obj, pc, img, compressed_data, images_processed, visited,
                   failures, before, commits>>
    /\ Frame

\* The outer "except Exception: continue": looking up the page's resources
\* raised before any of its items was visited.
PageError ==
    /\ pc = "walk"
    /\ page_num <= Len(pages)
    /\ idx = 1
    /\ page_num' = page_num + 1
    /\ idx' = 1
    /\ page_errors' = page_errors \cup {page_num}
    /\ UNCHANGED <<obj, pc, img, compressed_data, images_processed, visited,
                   failures, before, commits>>
    /\ UNCHANGED <<pages, saves, result, runs>>

\* The eligibility test and original_data = obj.read_bytes()
VisitHandle ==
    /\ pc = "walk"
    /\ page_num <= Len(pages)
    /\ idx <= Len(pages[page_num])
    /\ visited' = Append(visited, <<page_num, idx>>)
    /\ before' = obj[Current]
    /\ img' = None
    /\ compressed_data' = NoBytes
    /\ IF ~Eligible(obj[Current])
       THEN NextItem /\ failures' = failures
       ELSE \E ok \in BOOLEAN :
              IF ok THEN Step("extract") /\ failures' = failures ELSE HandleError
    /\ UNCHANGED <<obj, images_processed, commits>>
    /\ Frame

\* else: "Could not extract image": nothing is written
ExtractionFailedZeroLength == obj' = [obj EXCEPT ![Current].data = RawBytes(0, "none")]
ExtractionFailed == obj' = obj

\* img = self.smart_image_extraction(obj); if img: ... else: ...
Extract ==
    /\ pc = "extract"
    /\ IF smart_image_extraction(obj[Current]) = None
       THEN NextItem /\ failures' = failures + 1 /\ img' = None /\ ExtractionFailed
       ELSE /\ Step("compress")
            /\ img' = smart_image_extraction(obj[Current])
            /\ failures' = failures
            /\ obj' = obj
    /\ UNCHANGED <<compressed_data, images_processed, visited, before, commits>>
    /\ Frame

\* compressed_data = self.compress_image_smart(img)
Compress ==
    /\ pc = "compress"
    /\ \E ok \in BOOLEAN, n \in EncodedLens(obj[Current].data.len) :
         IF ok /\ ~EncoderRejects(img)
         THEN /\ Step("gate")
              /\ compressed_data' = compress_image_smart(img, n)
              /\ img' = ImageAfterCompress(img)
              /\ failures' = failures
         ELSE HandleError /\ UNCHANGED <<img, compressed_data>>
    /\ UNCHANGED <<obj, images_processed, visited, before, commits>>
    /\ Frame

\* The counter after the else branch "Skipped": it is not incremented.
CountAfterSkipIncremented == images_processed + 1
CountAfterSkip == images_processed

\* compression_ratio = (1 - len(compressed_data) / len(original_data)) * 100
\* (a division by zero for an empty original, caught per handle)
\* if compression_ratio > 10 ... else "Skipped"
Gate ==
    /\ pc = "gate"
    /\ IF obj[Current].data.len = 0
       THEN HandleError /\ images_processed' = images_processed
       ELSE IF Significant(compressed_data.len, obj[Current].data.len)
       THEN Step("write") /\ failures' = failures /\ images_processed' = images_processed
       ELSE NextItem /\ failures' = failures /\ images_processed' = CountAfterSkip
    /\ UNCHANGED <<obj, img, compressed_data, visited, before, commits>>
    /\ Frame

\* A step of the commit: it raises, or it sets the fields.
CommitStep(at, next, o) ==
    /\ pc = at
    /\ \E ok \in BOOLEAN :
         IF ok
         THEN /\ Step(next)
              /\ obj' = [obj EXCEPT ![Current] = o]
              /\ failures' = failures
         ELSE HandleError /\ obj' = obj
    /\ UNCHANGED <<img, compressed_data, images_processed, visited, before, commits>>
    /\ Frame

\* The filter obj.write leaves on the stream.
WrittenFilterKept == obj[Current].filter
WrittenFilter == "/DCTDecode"

\* obj.write(compressed_data, filter=pikepdf.Name.DCTDecode)
Write ==
    CommitStep("write", "set_width",
               [obj[Current] EXCEPT !.data = compressed_data, !.filter = WrittenFilter])

\* obj['/Width'] = img.width
SetWidth ==
    CommitStep("set_width", "set_height", [obj[Current] EXCEPT !.width = img.width])

\* obj['/Height'] = img.height
SetHeight ==
    CommitStep("set_height", "set_bits", [obj[Current] EXCEPT !.height = img.height])

\* obj['/BitsPerComponent'] = 8
SetBits ==
    CommitStep("set_bits", "set_colorspace", [obj[Current] EXCEPT !.bpc = TargetBits])

\* if img.mode == 'L': DeviceGray else DeviceRGB
ColorspaceAlwaysRGB(m) == "/DeviceRGB"
ColorspaceFor(m) == IF m = "L" THEN "/DeviceGray" ELSE "/DeviceRGB"

SetColorSpace ==
    CommitStep("set_colorspace", "count",
               [obj[Current] EXCEPT !.colorspace = ColorspaceFor(img.mode)])

\* images_processed += 1 (total_savings is only printed and is left out)
Count ==
    /\ pc = "count"
    /\ images_processed' = images_processed + 1
    /\ commits' = [commits EXCEPT ![Current] = @ + 1]
    /\ NextItem
    /\ UNCHANGED <<obj, img, compressed_data, visited, failures, before>>
    /\ Frame

\* return images_processed: the locals of the loop body are gone
ReturnFromWalk ==
    /\ pc = "walk"
    /\ page_num > Len(pages)
    /\ pc' = "walked"
    /\ img' = None
    /\ compressed_data' = NoBytes
    /\ UNCHANGED <<obj, page_num, idx, images_processed, visited, failures, before,
                   commits>>
    /\ Frame

\* process_pdf_images is called again on the same open document.
ProcessAgain ==
    /\ pc = "walked"
    /\ runs < MaxRuns
    /\ StartWalk
    /\ UNCHANGED <<obj, pages, saves, result, commits>>

(***************************************************************************)
(* compress_pdf_quality, after the walk                                    *)
(***************************************************************************)
\* "Cleaning metadata": every error in it is swallowed
CleanMetadata ==
    /\ pc = "walked"
    /\ pc' = "save"
    /\ UNCHANGED <<obj, page_num, idx, img, compressed_data, images_processed,
                   visited, failures, before, commits>>
    /\ Frame

\* pdf.save(output_path, compress_streams=True)
Save ==
    /\ pc = "save"
    /\ saves' = saves + 1
    /\ \E ok \in BOOLEAN :
         IF ok
         THEN pc' = "stat_output" /\ result' = result
         ELSE pc' = "done" /\ result' = Failure("Error: save")
    /\ UNCHANGED <<obj, pages, page_num, idx, img, compressed_data, images_processed,
                   runs, visited, failures, before, commits, page_errors>>

\* new_size = self.get_file_size_mb(output_path) ... return True, str(output_path), ...
StatOutput ==
    /\ pc = "stat_output"
    /\ pc' = "done"
    /\ \E ok \in BOOLEAN :
         result' = IF ok THEN Success ELSE Failure("Error: stat")
    /\ UNCHANGED <<obj, pages, page_num, idx, img, compressed_data, images_processed,
                   saves, runs, visited, failures, before, commits, page_errors>>

Next ==
    \/ ExistsCheck
    \/ StatInput
    \/ OpenDocument
    \/ NextPage
    \/ PageError
    \/ VisitHandle
    \/ Extract
    \/ Compress
    \/ Gate
    \/ Write
    \/ SetWidth
    \/ SetHeight
    \/ SetBits
    \/ SetColorSpace
    \/ Count
    \/ ReturnFromWalk
    \/ ProcessAgain
    \/ CleanMetadata
    \/ Save
    \/ StatOutput

Spec == Init /\ [][Next]_vars

(***************************************************************************)
(* Recompression of one image of every size: the document holds a single   *)
(* grayscale image of w x h samples                                        *)
(***************************************************************************)
ResizeDims ==
    {1, 2, 3, 7, 999, 2000, 2999, 4000} \cup ((MaxDim - 2)..(MaxDim + MaxOver))

InitResize ==
    /\ \E w \in ResizeDims, h \in ResizeDims :
         obj = [k \in Handles |->
                  IF k = 1
                  THEN Handle("/Image", "/FlateDecode", w, h, 8, "/DeviceGray",
                              RawBytes(w * h, "L"))
                  ELSE Handle("/Form", "/FlateDecode", 0, 0, 0, "none",
                              RawBytes(40, "none"))]
    /\ pages = << <<1>>, <<2>> >>
    /\ pc = "start"
    /\ page_num = 1
    /\ idx = 1
    /\ img = None
    /\ compressed_data = NoBytes
    /\ images_processed = 0
    /\ saves = 0
    /\ result = NoResult
    /\ runs = 0
    /\ visited = << >>
    /\ failures = 0
    /\ before = NoHandle
    /\ commits = [h \in Handles |-> 0]
    /\ page_errors = {}

SpecResize == InitResize /\ [][Next]_vars

(***************************************************************************)
(* Properties                                                              *)
(***************************************************************************)
\* The handle of the latest visit.
LastVisited == pages[visited[Len(visited)][1]][visited[Len(visited)][2]]

\* Every field of o carries the value of the replacement o.data.
AllReplaced(o) ==
    /\ o.data.kind = "jpeg"
    /\ o.filter = "/DCTDecode"
    /\ o.width = o.data.width
    /\ o.height = o.data.height
    /\ o.bpc = 8
    /\ o.colorspace = IF o.data.mode = "L" THEN "/DeviceGray" ELSE "/DeviceRGB"

\* C1: a visit that ends because extraction returned no image or because
\* encoding raised leaves the document as it is, and the handle is still
\* what it was when the visit began: bytes, filter, width, height, bit
\* depth and colorspace.
C1_NoMutationOnFailure ==
    [][(pc \in {"extract", "compress"} /\ pc' = "walk")
          => (obj' = obj /\ obj'[Current] = before)]_vars

\* C1 witness: extraction of the handle just visited failed and the handle
\* is unchanged.
C1_Witness ==
    /\ pc = "walk"
    /\ visited # << >>
    /\ failures > 0
    /\ Eligible(before)
    /\ ManualExtraction(before) = None
    /\ RGBFallback(before) = None
    /\ before.data.mode = "none"
    /\ obj[LastVisited] = before

\* C2: with an original of more than 0 bytes, an encoded length of at
\* least 90% of the original length is never committed: the gate skips,
\* the handle is unchanged and nothing is counted.
C2_GateSkipsBelowThreshold ==
    [][(/\ pc = "gate"
        /\ obj[Current].data.len > 0
        /\ 10 * compressed_data.len >= 9 * obj[Current].data.len)
          => (/\ pc' = "walk"
              /\ obj' = obj
              /\ obj'[Current] = before
              /\ images_processed' = images_processed
              /\ failures' = failures)]_vars

\* C2 witness: the gate has skipped an encoding of exactly 90% of the
\* original length.
C2_Witness ==
    /\ pc = "walk"
    /\ visited # << >>
    /\ before.data.len > 0
    /\ 10 * compressed_data.len = 9 * before.data.len
    /\ obj[LastVisited] = before

\* C3: once the processing of a handle has finished, either every field
\* carries the replacement values or the handle is what it was before.
C3_CommitAtomic ==
    (pc = "walk" /\ visited # << >>)
        => (obj[LastVisited] = before \/ AllReplaced(obj[LastVisited]))

\* C4: a committed handle's colorspace tag matches the mode of the encoded
\* bytes: DeviceGray for a decoded L image, DeviceRGB for every other mode,
\* whose encoded stream is RGB.
C4_ColorspaceMatchesMode ==
    pc = "count"
        => /\ (img.mode = "L"
                 => /\ obj[Current].colorspace = "/DeviceGray"
                    /\ obj[Current].data.mode = "L")
           /\ (img.mode # "L"
                 => /\ obj[Current].colorspace = "/DeviceRGB"
                    /\ obj[Current].data.mode = "RGB")

\* C4 witness: a decoded grayscale image has been committed as DeviceGray.
C4_Witness ==
    /\ pc = "count"
    /\ img.mode = "L"
    /\ obj[Current].colorspace = "/DeviceGray"
    /\ obj[Current].data.kind = "jpeg"

\* C5: once a handle has been committed, no later step changes it and it
\* is never committed again.
C5_CommittedOnce ==
    [][\A h \in Handles :
          commits[h] >= 1 => (obj'[h] = obj[h] /\ commits'[h] = commits[h])]_vars

\* C5 witness: a committed handle has been visited again and is unchanged.
C5_Witness ==
    /\ pc = "walk"
    /\ visited # << >>
    /\ commits[LastVisited] = 1
    /\ before.filter = "/DCTDecode"
    /\ obj[LastVisited] = before

\* C6: when the decoded width or height exceeds 1500, both dimensions of
\* the recompressed image are at most 1500, its longer side is exactly 1500
\* and its aspect ratio is the input's within one pixel; otherwise the
\* dimensions are unchanged.
C6_SizeCap ==
    pc = "gate"
        => IF before.width > 1500 \/ before.height > 1500
           THEN /\ img.width >= 1 /\ img.width <= 1500
                /\ img.height >= 1 /\ img.height <= 1500
                /\ Max(img.width, img.height) = 1500
                /\ Abs(img.width * before.height - img.height * before.width)
                     < Max(before.width, before.height)
                /\ compressed_data.width = img.width
                /\ compressed_data.height = img.height
           ELSE /\ img.width = before.width
                /\ img.height = before.height
                /\ compressed_data.width = before.width
                /\ compressed_data.height = before.height

\* C6 witness: a 2000 x 2000 image has been recompressed at 1500 x 1500.
C6_Witness ==
    /\ pc = "gate"
    /\ before.width = 2000
    /\ before.height = 2000
    /\ compressed_data.width = 1500
    /\ compressed_data.height = 1500

\* C7: after a commit the filter is DCTDecode, the bit depth 8, the bytes
\* are the encoded result and width and height are those of the encoded
\* image: the capped size, which is the original size when neither
\* dimension exceeds 1500.
C7_CommitWritesResult ==
    pc = "count"
        => /\ obj[Current].filter = "/DCTDecode"
           /\ obj[Current].bpc = 8
           /\ obj[Current].data = compressed_data
           /\ obj[Current].data.kind = "jpeg"
           /\ obj[Current].width = compressed_data.width
           /\ obj[Current].height = compressed_data.height
           /\ obj[Current].width <= 1500
           /\ obj[Current].height <= 1500
           /\ (before.width <= 1500 /\ before.height <= 1500
                 => /\ obj[Current].width = before.width
                    /\ obj[Current].height = before.height)

\* C7 witness: the 1200 x 800 DeviceRGB image has been committed at
\* 40% of its bytes.
C7_Witness ==
    /\ pc = "count"
    /\ before.width = 1200
    /\ before.height = 800
    /\ before.colorspace = "/DeviceRGB"
    /\ 5 * compressed_data.len = 2 * before.data.len
    /\ obj[Current].filter = "/DCTDecode"
    /\ obj[Current].colorspace = "/DeviceRGB"
    /\ obj[Current].width = 1200
    /\ obj[Current].height = 800

\* C8: a per-handle failure never aborts the walk: when process_pdf_images
\* returns, every handle of every page whose resources could be listed has
\* been visited, and no exception has escaped.
C8_WalkSurvivesFailures ==
    /\ pc = "walked"
         => \A p \in (1..Len(pages)) \ page_errors :
              \A i \in 1..Len(pages[p]) :
                \E k \in 1..Len(visited) : visited[k] = <<p, i>>
    /\ pc = "raised" => runs = 0

\* C8 witness: the walk has returned after every one of its two or more
\* visits failed.
C8_Witness ==
    /\ pc = "walked"
    /\ page_errors = {}
    /\ Len(visited) >= 2
    /\ failures = Len(visited)

\* C9: the document is saved at most once, only after the walk is
\* exhausted; a run that failed returns success False, no output path and
\* an error message, and a run that did not reach the save has saved nothing.
C9_SaveOnceAfterWalk ==
    /\ saves <= 1
    /\ saves = 1 => (pc \in {"stat_output", "done"} /\ page_num > Len(pages))
    /\ pc = "done"
         => /\ result.returned
            /\ (result.success <=> result.error = "None")
            /\ (~result.success => result.output_path = "None")
            /\ (result.success => saves = 1)
            /\ (result.error \in {"Input file does not exist", "Error: open"}
                  => saves = 0)

\* C9 witness: the save failed after images were committed, and the run
\* returned a failure.
C9_Witness ==
    /\ pc = "done"
    /\ result.error = "Error: save"
    /\ ~result.success
    /\ saves = 1
    /\ images_processed > 0

\* C10: the pixel buffer of an extracted image has width * height *
\* channels bytes; manual reconstruction takes the first width * height *
\* channels of at least that many raw bytes, with 3 channels for RGB and
\* unknown colorspaces, 1 for Gray and 4 for CMYK.
C10_BufferLength ==
    pc = "compress"
        => /\ img.buf = img.width * img.height
                          * (CASE img.mode = "L" -> 1
                               [] img.mode = "P" -> 1
                               [] img.mode = "RGB" -> 3
                               [] OTHER -> 4)
           /\ img.via \in {2, 3}
                => /\ img.width = obj[Current].width
                   /\ img.height = obj[Current].height
                   /\ obj[Current].data.len >= img.buf
           /\ img.via = 2
                => img.mode = (CASE obj[Current].colorspace = "/DeviceGray" -> "L"
                                 [] obj[Current].colorspace = "/DeviceCMYK" -> "CMYK"
                                 [] OTHER -> "RGB")
           /\ img.via = 3 => img.mode = "RGB"

\* C10 witness: manual reconstruction used a prefix of a longer byte string.
C10_Witness ==
    /\ pc = "compress"
    /\ img.via = 2
    /\ obj[Current].data.len > img.buf
    /\ img.buf > 0

\* C11: the strategies are called in the order 1, 2, 3, each only after the
\* one before it returned no image, and the RGB fallback is only called
\* after a channel-count mismatch: it never repeats the 3-channel call that
\* strategy 2 made for a declared RGB or unknown colorspace.
C11_FallbackIsNoRetry ==
    [][pc = "extract"
         => LET calls == StrategyCalls(obj[Current])
            IN  /\ \A i, j \in 1..Len(calls) :
                     i < j => calls[i].strategy < calls[j].strategy
                /\ \A i, j \in 1..Len(calls) :
                     (calls[i].strategy = 2 /\ calls[j].strategy = 3)
                        => /\ calls[i].mode # "RGB"
                           /\ [calls[i] EXCEPT !.strategy = 3] # calls[j]]_vars

\* C12: a handle that is not an image XObject with filter /FlateDecode is
\* skipped before extraction and no step changes any of its fields; the
\* only handles that are processed and written are those that were such
\* an image when their visit began.
C12_OnlyEligibleMutated ==
    [][/\ \A h \in Handles :
            (/\ ~(obj[h].subtype = "/Image" /\ obj[h].filter = "/FlateDecode")
             /\ ~(/\ pc \in {"set_width", "set_height", "set_bits", "set_colorspace"}
                  /\ Current = h))
               => obj'[h] = obj[h]
       /\ pc' = "extract"
            => (obj[Current].subtype = "/Image" /\ obj[Current].filter = "/FlateDecode")
       /\ pc \in {"extract", "compress", "gate", "write", "set_width", "set_height",
                   "set_bits", "set_colorspace", "count"}
            => (before.subtype = "/Image" /\ before.filter = "/FlateDecode")]_vars

\* C12 witness: an image without a filter was visited after another handle
\* was committed, and is unchanged.
C12_Witness ==
    /\ pc = "walk"
    /\ visited # << >>
    /\ before.subtype = "/Image"
    /\ before.filter = "none"
    /\ obj[LastVisited] = before
    /\ \E g \in Handles \ {LastVisited} : commits[g] = 1

\* The items <<p, 1>> .. <<p, n>> of page p.
PageItems(p, n) == [i \in 1..n |-> <<p, i>>]

\* Every item of the pages 1 .. p whose resources could be listed, in order.
RECURSIVE ItemsUpTo(_)
ItemsUpTo(p) ==
    IF p = 0 THEN << >>
    ELSE ItemsUpTo(p - 1)
           \o (IF p \in page_errors THEN << >> ELSE PageItems(p, Len(pages[p])))

\* A handle is being processed.
InVisit ==
    pc \in {"extract", "compress", "gate", "write", "set_width", "set_height",
            "set_bits", "set_colorspace", "count"}

\* C13: the visits of a run are the items of the pages in page order, then
\* in-page order, one visit per item, so a handle referenced from k pages
\* is visited k times; the handle being processed is the latest one visited,
\* so the next visit begins only when it is finished.
C13_WalkOrder ==
    /\ visited = ItemsUpTo(page_num - 1)
                   \o (IF page_num <= Len(pages)
                       THEN PageItems(page_num, IF InVisit THEN idx ELSE idx - 1)
                       ELSE << >>)
    /\ (pc = "walked" /\ page_errors = {})
         => \A h \in Handles :
              Cardinality({k \in 1..Len(visited) :
                             pages[visited[k][1]][visited[k][2]] = h})
                = Cardinality({q \in UNION {{<<p, i>> : i \in 1..Len(pages[p])} :
                                               p \in 1..Len(pages)} :
                                 pages[q[1]][q[2]] = h})

\* C13 witness: a handle referenced from pages 1 and 3 was committed on its
\* first visit and visited again on page 3.
C13_Witness ==
    /\ pc = "walked"
    /\ page_errors = {}
    /\ Len(pages) = 3
    /\ Len(visited) = 3
    /\ visited[1] = <<1, 1>>
    /\ visited[3] = <<3, 2>>
    /\ pages[1][1] = pages[3][2]
    /\ commits[pages[1][1]] = 1
    /\ runs = 1

\* C14: a visit of a handle whose original bytes are empty never commits:
\* no step of it changes the document or the counter, the division error
\* at the gate is caught, and the walk goes on with the next item.  The
\* counter only changes by one when a commit has completed, so the count
\* returned is the number of handles committed.
C14_EmptyOriginalAndCount ==
    [][/\ (InVisit /\ before.data.len = 0)
            => /\ obj' = obj
               /\ images_processed' = images_processed
               /\ pc' \in {"extract", "compress", "gate", "walk"}
               /\ pc' = "walk" => (page_num' = page_num /\ idx' = idx + 1)
       /\ (pc = "gate" /\ obj[Current].data.len = 0)
            => (pc' = "walk" /\ failures' = failures + 1)
       /\ images_processed' # images_processed
            => \/ /\ pc = "count"
                  /\ images_processed' = images_processed + 1
                  /\ AllReplaced(obj[Current])
                  /\ obj[Current].data = compressed_data
                  /\ obj[Current] # before
               \/ /\ images_processed' = 0
                  /\ pc = "walked"
                  /\ pc' = "walk"
       /\ (pc = "walked" /\ runs = 1)
            => images_processed = Cardinality({h \in Handles : commits[h] = 1})]_vars

\* C14 witness: after one handle was committed, the division by the empty
\* original of the next one was caught; the handle is unchanged and the
\* counter is still 1.
C14_Witness ==
    /\ pc = "walk"
    /\ visited # << >>
    /\ before.filter = "/FlateDecode"
    /\ before.data.len = 0
    /\ compressed_data # NoBytes
    /\ failures = 1
    /\ obj[LastVisited] = before
    /\ images_processed = 1
    /\ \E g \in Handles \ {LastVisited} : commits[g] = 1

====
